---- MODULE Spec2Model ----
(***************************************************************************)
(* Model of the brush effect engine of Mosaic-Master (utils/effects.ts):   *)
(* applyPixelate, applyNoise and applyBlur acting on the 2D canvas backing *)
(* store, and of the editor around it (App.tsx): strokes, history, undo.   *)
(*                                                                         *)
(* Real-valued inputs (brush center, radius, intensity) are exact          *)
(* rationals n/Den; a value of Math.random() is a rational n/RandDen in    *)
(* [0,1).  The canvas is an interleaved RGBA byte sequence, row-major.     *)
(***************************************************************************)
EXTENDS Integers, Sequences, FiniteSets, TLC

\* ------------------------------------------------------------------ bounds
\* Denominator of the brush center, radius and intensity (halves).
Den == 2
\* Denominator of the values the random source returns.
RandDen == 8
\* Canvas size in pixels.
CanvasW == 4
CanvasH == 4
\* Number of dabs in a behaviour.
MaxDabs == 2
\* Side of the images loaded into the editor, in pixels.
AppSide == 2
\* Number of events (pointer, button, timer, image) in a behaviour of the editor.
MaxEvents == 5

\* ------------------------------------------------------- program constants
MinBlockSize == 2
ByteMax == 255
\* Number of snapshots the history keeps.
HistoryLimit == 20

\* ----------------------------------------------------------- number helpers
Max(a, b) == IF a >= b THEN a ELSE b
Min(a, b) == IF a <= b THEN a ELSE b

\* Math.floor(n / d) and Math.ceil(n / d) for d > 0.
Floor(n, d) == n \div d
Ceil(n, d) == -((-n) \div d)

\* Conversion of the number n/d to a WebIDL long (truncation toward zero).
ToLong(n, d) == IF n >= 0 THEN n \div d ELSE -((-n) \div d)

\* Store of the number n/d (already within [0,255]) into a Uint8ClampedArray
\* element: round to nearest, ties to even, clamped to [0,255].
ToUint8Clamp(n, d) ==
  LET f == n \div d
      rem2 == 2 * (n - f * d)
      v == IF rem2 > d THEN f + 1
           ELSE IF rem2 < d THEN f
           ELSE IF f % 2 = 0 THEN f ELSE f + 1
  IN Min(ByteMax, Max(0, v))

\* --------------------------------------------------------- the backing store
\* A canvas or an ImageData: [width, height, data], data a sequence of
\* width*height*4 bytes; byte index i of the code is element i+1 here.
Byte(data, idx) == IF idx + 1 \in DOMAIN data THEN data[idx + 1] ELSE 0

\* An out-of-range store into a typed array is ignored.
SetByte(data, idx, v) ==
  IF idx + 1 \in DOMAIN data THEN [data EXCEPT ![idx + 1] = v] ELSE data

\* ctx.getImageData(sx, sy, sw, sh) for sw, sh >= 1: pixels outside the
\* canvas read as transparent black.
GetImageData(cv, sx, sy, sw, sh) ==
  [width |-> sw, height |-> sh,
   data |-> [i \in 1..(sw * sh * 4) |->
      LET p == (i - 1) \div 4
          c == (i - 1) % 4
          x == sx + (p % sw)
          y == sy + (p \div sw)
      IN IF x >= 0 /\ x < cv.width /\ y >= 0 /\ y < cv.height
         THEN cv.data[(y * cv.width + x) * 4 + c + 1]
         ELSE 0]]

\* ctx.putImageData(img, dx, dy): the part of img inside the canvas replaces
\* the canvas pixels; the canvas keeps its size.
PutImageData(cv, img, dx, dy) ==
  [cv EXCEPT !.data = [i \in 1..Len(cv.data) |->
      LET p == (i - 1) \div 4
          c == (i - 1) % 4
          x == p % cv.width
          y == p \div cv.width
          lx == x - dx
          ly == y - dy
      IN IF lx >= 0 /\ lx < img.width /\ ly >= 0 /\ ly < img.height
         THEN Byte(img.data, (ly * img.width + lx) * 4 + c)
         ELSE cv.data[i]]]

\* dist <= radius, dist == Math.sqrt((x - cx) ** 2 + (y - cy) ** 2), for the
\* pixel (x, y) and the center (cxN/Den, cyN/Den), radius rN/Den.
InCircle(x, y, cxN, cyN, rN) ==
  /\ rN >= 0
  /\ (x * Den - cxN) * (x * Den - cxN) + (y * Den - cyN) * (y * Den - cyN)
       <= rN * rN

\* ------------------------------------------------------------ applyPixelate
\* blockSize = Math.max(2, Math.floor(intensity)), intensity = intN/Den.
BlockSize(intN) == Max(MinBlockSize, Floor(intN, Den))

\* Bounding box of the brush on one axis: floor(c - r) and ceil(c + r).
BrushMin(cN, rN) == Floor(cN - rN, Den)
BrushMax(cN, rN) == Ceil(cN + rN, Den)

\* Alignment of the bounds to the global grid anchored at 0.
UnalignedStart(brushMin, blockSize) == brushMin
AlignStart(brushMin, blockSize) == Floor(brushMin, blockSize) * blockSize
AlignEnd(brushMax, blockSize) == Floor(brushMax + blockSize - 1, blockSize) * blockSize

\* Clipping of the aligned bounds to the canvas.
UnclippedStart(start) == start
SafeStart(start) == Max(0, start)
SafeEnd(limit, end) == Min(limit, end)

\* Steps 1-3 and the grid origin of step 5.
PixelateGeom(cv, cxN, cyN, rN, intN) ==
  LET blockSize == BlockSize(intN)
      startX == AlignStart(BrushMin(cxN, rN), blockSize)
      startY == AlignStart(BrushMin(cyN, rN), blockSize)
      endX == AlignEnd(BrushMax(cxN, rN), blockSize)
      endY == AlignEnd(BrushMax(cyN, rN), blockSize)
      safeStartX == SafeStart(startX)
      safeStartY == SafeStart(startY)
      safeEndX == SafeEnd(cv.width, endX)
      safeEndY == SafeEnd(cv.height, endY)
  IN [blockSize |-> blockSize,
      safeStartX |-> safeStartX, safeStartY |-> safeStartY,
      safeEndX |-> safeEndX, safeEndY |-> safeEndY,
      safeWidth |-> safeEndX - safeStartX,
      safeHeight |-> safeEndY - safeStartY,
      gridStartX |-> Floor(safeStartX, blockSize) * blockSize,
      gridStartY |-> Floor(safeStartY, blockSize) * blockSize]

\* Number of iterations of "for (v = from; v < to; v += step)".
LoopCount(from, to, step) == IF to > from THEN Ceil(to - from, step) ELSE 0

\* The blocks the two nested loops visit, in visiting order (gy outer).
Blocks(g) ==
  LET nx == LoopCount(g.gridStartX, g.safeEndX, g.blockSize)
      ny == LoopCount(g.gridStartY, g.safeEndY, g.blockSize)
  IN [k \in 1..(nx * ny) |->
        LET gx == g.gridStartX + ((k - 1) % nx) * g.blockSize
            gy == g.gridStartY + ((k - 1) \div nx) * g.blockSize
        IN [gx |-> gx, gy |-> gy,
            minX |-> Max(g.safeStartX, gx), minY |-> Max(g.safeStartY, gy),
            maxX |-> Min(g.safeEndX, gx + g.blockSize),
            maxY |-> Min(g.safeEndY, gy + g.blockSize)]]

\* "if (blockMinX >= blockMaxX || blockMinY >= blockMaxY) continue"
BlockSkipped(b) == b.minX >= b.maxX \/ b.minY >= b.maxY

\* The pixels of a block in the order of "for y ... for x ...".
BlockPixels(b) ==
  LET w == b.maxX - b.minX
      h == b.maxY - b.minY
  IN [k \in 1..(w * h) |-> <<b.minX + ((k - 1) % w), b.minY + ((k - 1) \div w)>>]

\* Index into the ImageData buffer of the canvas pixel (x, y).
PixIdx(g, x, y) == ((y - g.safeStartY) * g.safeWidth + (x - g.safeStartX)) * 4

\* "for (x = blockMinX; x < blockMaxX; x++)" of the averaging loops: the
\* sum of channel c over the first nx pixels of row y of block b.
RECURSIVE RowSum(_, _, _, _, _, _)
RowSum(data, g, b, y, nx, c) ==
  IF nx = 0 THEN 0
  ELSE RowSum(data, g, b, y, nx - 1, c)
         + Byte(data, PixIdx(g, b.minX + nx - 1, y) + c)

\* "for (y = blockMinY; y < blockMaxY; y++)": the sum over the first ny rows.
RECURSIVE BlockSum(_, _, _, _, _)
BlockSum(data, g, b, ny, c) ==
  IF ny = 0 THEN 0
  ELSE BlockSum(data, g, b, ny - 1, c)
         + RowSum(data, g, b, b.minY + ny - 1, b.maxX - b.minX, c)

\* Average of a channel: Math.floor(sum / count).
MeanCountOffByOne(sum, count) == Floor(sum, count + 1)
Mean(sum, count) == Floor(sum, count)

\* "if (dist <= radius)": the pixels the painting loop stores to.
PaintAll(x, y, cxN, cyN, rN) == TRUE
Painted(x, y, cxN, cyN, rN) == InCircle(x, y, cxN, cyN, rN)

\* The painting loop over the pixels px of a block: every store of the loop
\* writes the block's (r, g, b), so the buffer after the loop holds rgb[c+1]
\* at the index of channel c of each painted pixel and is unchanged elsewhere.
PaintBlockWithAlpha(data, g, px, rgb, cxN, cyN, rN) ==
  LET painted == {j \in DOMAIN px : Painted(px[j][1], px[j][2], cxN, cyN, rN)}
  IN [i \in 1..Len(data) |->
        IF \E j \in painted : (i - 1) - PixIdx(g, px[j][1], px[j][2]) \in 0..3
        THEN rgb[1]
        ELSE data[i]]

PaintBlock(data, g, px, rgb, cxN, cyN, rN) ==
  LET painted == {j \in DOMAIN px : Painted(px[j][1], px[j][2], cxN, cyN, rN)}
  IN [i \in 1..Len(data) |->
        IF \E j \in painted : (i - 1) - PixIdx(g, px[j][1], px[j][2]) \in 0..2
        THEN rgb[((i - 1) % 4) + 1]
        ELSE data[i]]

\* One iteration of the block loops.
PixelateBlock(data, g, b, cxN, cyN, rN) ==
  IF BlockSkipped(b) THEN data
  ELSE LET px == BlockPixels(b)
           count == Len(px)
           rows == b.maxY - b.minY
           rgb == <<Mean(BlockSum(data, g, b, rows, 0), count),
                    Mean(BlockSum(data, g, b, rows, 1), count),
                    Mean(BlockSum(data, g, b, rows, 2), count)>>
       IN IF count = 0 THEN data
          ELSE PaintBlock(data, g, px, rgb, cxN, cyN, rN)

\* The block loops over the first nb blocks of bs.
RECURSIVE PixelateLoop(_, _, _, _, _, _, _)
PixelateLoop(data, g, bs, nb, cxN, cyN, rN) ==
  IF nb = 0 THEN data
  ELSE LET done == PixelateLoop(data, g, bs, nb - 1, cxN, cyN, rN)
       IN PixelateBlock(done, g, bs[nb], cxN, cyN, rN)

\* Buffer indices the loops read or store to.
PixelateTouched(g, bs) ==
  UNION { { PixIdx(g, p[1], p[2]) + c :
              p \in {<<x, y>> : x \in bs[k].minX..(bs[k].maxX - 1),
                                y \in bs[k].minY..(bs[k].maxY - 1)},
              c \in 0..2 } : k \in {j \in DOMAIN bs : ~BlockSkipped(bs[j])} }

\* The calls a dab makes to the backing store, in order.
ReadOk == [op |-> "read", ok |-> TRUE]
ReadRefused == [op |-> "read", ok |-> FALSE]
WriteOk == [op |-> "write", ok |-> TRUE]
WriteRefused == [op |-> "write", ok |-> FALSE]

NoRect == [x |-> 0, y |-> 0, w |-> 0, h |-> 0]
NoTrace == [rect |-> NoRect, cells |-> {}, touched |-> {}, bufLen |-> 0,
            draws |-> {}, ops |-> <<>>]

\* applyPixelate(ctx, centerX, centerY, {radius, intensity}) on the canvas cv
\* whose store answers as `store` says.  outcome: "empty" is the early return
\* of step 3, "caught" the return from the catch block, "threw" an exception
\* leaving the function, "done" the normal end.
ApplyPixelate(cv, cxN, cyN, rN, intN, store) ==
  LET g == PixelateGeom(cv, cxN, cyN, rN, intN)
      rect == [x |-> g.safeStartX, y |-> g.safeStartY,
               w |-> g.safeWidth, h |-> g.safeHeight]
  IN IF g.safeWidth <= 0 \/ g.safeHeight <= 0
     THEN [canvas |-> cv, outcome |-> "empty", trace |-> NoTrace]
     ELSE IF store = "refuseRead"
     THEN [canvas |-> cv, outcome |-> "caught",
           trace |-> [NoTrace EXCEPT !.rect = rect, !.ops = <<ReadRefused>>]]
     ELSE LET imgData == GetImageData(cv, g.safeStartX, g.safeStartY,
                                      g.safeWidth, g.safeHeight)
              bs == Blocks(g)
              data == PixelateLoop(imgData.data, g, bs, Len(bs), cxN, cyN, rN)
              trace == [rect |-> rect,
                        cells |-> {[blockSize |-> g.blockSize, gx |-> bs[k].gx,
                                    gy |-> bs[k].gy,
                                    minX |-> bs[k].minX, maxX |-> bs[k].maxX,
                                    minY |-> bs[k].minY, maxY |-> bs[k].maxY] :
                                   k \in {j \in DOMAIN bs : ~BlockSkipped(bs[j])}},
                        touched |-> PixelateTouched(g, bs),
                        bufLen |-> Len(imgData.data),
                        draws |-> {}, ops |-> <<ReadOk>>]
          IN IF store = "refuseWrite"
             THEN [canvas |-> cv, outcome |-> "threw",
                   trace |-> [trace EXCEPT !.ops = <<ReadOk, WriteRefused>>]]
             ELSE [canvas |-> PutImageData(cv, [imgData EXCEPT !.data = data],
                                           g.safeStartX, g.safeStartY),
                   outcome |-> "done",
                   trace |-> [trace EXCEPT !.ops = <<ReadOk, WriteOk>>]]

\* --------------------------------------------------------------- applyNoise
\* (Math.random() - 0.5) * variance with variance = intensity * 1.5, as a
\* numerator over OffDen, for Math.random() = rndN/RandDen.
OffDen == 4 * RandDen * Den
WideOffset(rndN, intN) == (2 * rndN - RandDen) * 6 * intN
Offset(rndN, intN) == (2 * rndN - RandDen) * 3 * intN

\* Math.min(255, Math.max(0, old + rand)) stored into the byte array.
Unclamped(old, offN) == old + Floor(offN, OffDen)
NoiseChannel(old, offN) ==
  ToUint8Clamp(Min(ByteMax * OffDen, Max(0, old * OffDen + offN)), OffDen)

\* The nth call of Math.random() of a dab (nth from 0) under the stream rs.
Random(rs, nth) == rs[(nth % Len(rs)) + 1]

\* Extent of the region read on one axis, as a numerator over Den:
\* Math.min(limit - safe, diameter), diameter = radius * 2.
SafeExtent(limit, safe, rN) == Min((limit - safe) * Den, 2 * rN)

\* The pixel loop over the ImageData img read at (realStartX, realStartY),
\* rows outer, columns inner.  Pixel number q (row-major, from 0) is stored
\* to when it lies within the radius, and then draws Math.random() three
\* times (R, G, B): its first draw is call number 3 * (the number of pixels
\* before q within the radius).
NoisePixels(img, realStartX, realStartY, xN, yN, rN) ==
  {q \in 0..(img.width * img.height - 1) :
     InCircle(realStartX + (q % img.width), realStartY + (q \div img.width),
              xN, yN, rN)}

NoiseLoop(img, realStartX, realStartY, xN, yN, rN, intN, rs) ==
  LET hit == NoisePixels(img, realStartX, realStartY, xN, yN, rN)
      first == [q \in hit |-> 3 * Cardinality({q2 \in hit : q2 < q})]
      off == [q \in hit |-> [ch \in 0..2 |->
                Offset(Random(rs, first[q] + ch), intN)]]
  IN [data |-> [i \in 1..Len(img.data) |->
                  IF ((i - 1) \div 4) \in hit /\ ((i - 1) % 4) < 3
                  THEN NoiseChannel(img.data[i],
                                    off[(i - 1) \div 4][(i - 1) % 4])
                  ELSE img.data[i]],
      draws |-> {[x |-> realStartX + (d[1] % img.width),
                  y |-> realStartY + (d[1] \div img.width),
                  c |-> d[2], pos |-> d[1] * 4 + d[2],
                  old |-> Byte(img.data, d[1] * 4 + d[2]),
                  off |-> off[d[1]][d[2]],
                  new |-> NoiseChannel(Byte(img.data, d[1] * 4 + d[2]),
                                       off[d[1]][d[2]])] :
                 d \in hit \X (0..2)}]

\* applyNoise(ctx, x, y, {radius, intensity}); rs is the stream of values the
\* random source returns during the call.
ApplyNoise(cv, xN, yN, rN, intN, store, rs) ==
  LET startX == Floor(xN - rN, Den)
      startY == Floor(yN - rN, Den)
      safeX == Max(0, startX)
      safeY == Max(0, startY)
      safeWN == SafeExtent(cv.width, safeX, rN)
      safeHN == SafeExtent(cv.height, safeY, rN)
      sw == ToLong(safeWN, Den)
      sh == ToLong(safeHN, Den)
      rect == [x |-> safeX, y |-> safeY, w |-> sw, h |-> sh]
  IN IF safeWN <= 0 \/ safeHN <= 0
     THEN [canvas |-> cv, outcome |-> "empty", trace |-> NoTrace]
     ELSE IF store = "refuseRead" \/ sw = 0 \/ sh = 0
     THEN \* SecurityError or IndexSizeError of getImageData, caught
          [canvas |-> cv, outcome |-> "caught",
           trace |-> [NoTrace EXCEPT !.rect = rect, !.ops = <<ReadRefused>>]]
     ELSE LET imgData == GetImageData(cv, safeX, safeY, sw, sh)
              realStartX == Max(0, startX)
              realStartY == Max(0, startY)
              res == NoiseLoop(imgData, realStartX, realStartY,
                               xN, yN, rN, intN, rs)
              trace == [rect |-> rect, cells |-> {},
                        touched |-> {d.pos : d \in res.draws},
                        bufLen |-> Len(imgData.data),
                        draws |-> res.draws, ops |-> <<ReadOk>>]
          IN IF store = "refuseWrite"
             THEN [canvas |-> cv, outcome |-> "threw",
                   trace |-> [trace EXCEPT !.ops = <<ReadOk, WriteRefused>>]]
             ELSE [canvas |-> PutImageData(cv, [imgData EXCEPT !.data = res.data],
                                           realStartX, realStartY),
                   outcome |-> "done",
                   trace |-> [trace EXCEPT !.ops = <<ReadOk, WriteOk>>]]

\* ------------------------------------------------------------- applyBlur
\* The drawing state of a 2D context: the clip region (a set of circles
\* <<cx, cy, r>> over Den whose intersection is the region; {} = no clip),
\* the filter (blur length over BlurDen; 0 = "none") and the stack of states
\* pushed by save().
BlurDen == 4 * Den
FreshContext == [clip |-> {}, filter |-> 0, stack |-> <<>>]

Save(cx) == [cx EXCEPT !.stack = Append(@, [clip |-> cx.clip, filter |-> cx.filter])]

\* ctx.restore(): pops the last saved state; nothing on an empty stack.
Restore(cx) ==
  IF cx.stack = <<>> THEN cx
  ELSE [clip |-> cx.stack[Len(cx.stack)].clip,
        filter |-> cx.stack[Len(cx.stack)].filter,
        stack |-> SubSeq(cx.stack, 1, Len(cx.stack) - 1)]

\* blurPx = Math.max(1, intensity / 4), numerator over BlurDen.
BlurPxUnclamped(intN) == intN
BlurPx(intN) == Max(BlurDen, intN)

\* drawStart / drawEnd and drawSize, numerators over BlurDen.
DrawStart(cN, rN, bp) == Max(0, 4 * cN - 4 * rN - 2 * bp)
DrawSize(rN, bp) == (4 * rN + 2 * bp) * 2

\* The center of pixel (x, y) lies in every circle of the clip region.
InClip(clip, x, y) ==
  \A ci \in clip :
    ((2 * x + 1) * Den - 2 * ci[1]) * ((2 * x + 1) * Den - 2 * ci[1])
      + ((2 * y + 1) * Den - 2 * ci[2]) * ((2 * y + 1) * Den - 2 * ci[2])
      <= 4 * ci[3] * ci[3]

\* The center of pixel coordinate v lies in [start, start + size).
InSpan(v, start, size) ==
  /\ 2 * (2 * v + 1) * Den >= start
  /\ 2 * (2 * v + 1) * Den < start + size

RECURSIVE WindowSum(_, _, _)
WindowSum(cv, wc, wpts) ==
  IF wpts = {} THEN 0
  ELSE LET wp == CHOOSE wq \in wpts : TRUE
       IN cv.data[(wp[2] * cv.width + wp[1]) * 4 + wc + 1]
            + WindowSum(cv, wc, wpts \ {wp})

\* The blurred source at pixel (x, y), channel bc: the browser's Gaussian
\* weights are its own; here the unweighted mean over the pixels of the
\* source rectangle within ceil(blurPx) of (x, y).
Blurred(cv, x, y, bc, sx, sy, size, bp) ==
  LET reach == Ceil(bp, BlurDen)
      window == {wq \in ((x - reach)..(x + reach)) \X ((y - reach)..(y + reach)) :
                   /\ wq[1] >= 0 /\ wq[1] < cv.width
                   /\ wq[2] >= 0 /\ wq[2] < cv.height
                   /\ InSpan(wq[1], sx, size) /\ InSpan(wq[2], sy, size)}
  IN IF window = {} THEN cv.data[(y * cv.width + x) * 4 + bc + 1]
     ELSE Floor(WindowSum(cv, bc, window), Cardinality(window))

\* The canvas pixels a drawImage to the rectangle (sx, sy, size, size) under
\* the clip region reaches.
DrawnPixels(cv, clip, sx, sy, size) ==
  {dp \in (0..(cv.width - 1)) \X (0..(cv.height - 1)) :
     /\ InClip(clip, dp[1], dp[2])
     /\ InSpan(dp[1], sx, size) /\ InSpan(dp[2], sy, size)}

\* ctx.drawImage(canvas, s, s, size, size, s, s, size, size) with the blur
\* filter set: R, G, B of the reached pixels become the blurred source.
DrawImage(cv, clip, sx, sy, size, bp) ==
  LET drawn == DrawnPixels(cv, clip, sx, sy, size)
  IN [cv EXCEPT !.data = [i \in 1..Len(cv.data) |->
        LET pp == (i - 1) \div 4
            pc == (i - 1) % 4
        IN IF pc < 3 /\ <<pp % cv.width, pp \div cv.width>> \in drawn
           THEN Blurred(cv, pp % cv.width, pp \div cv.width, pc, sx, sy, size, bp)
           ELSE cv.data[i]]]

\* applyBlur(ctx, x, y, settings, canvas).  ctx.arc throws on a negative
\* radius and drawImage throws when the store refuses the write; neither is
\* caught, so ctx.restore() is then not reached.
ApplyBlur(cv, cx, xN, yN, rN, intN, st) ==
  LET saved == Save(cx)
      clipped == [saved EXCEPT !.clip = @ \cup {<<xN, yN, rN>>}]
      bp == BlurPx(intN)
      filtered == [clipped EXCEPT !.filter = bp]
      sx == DrawStart(xN, rN, bp)
      sy == DrawStart(yN, rN, bp)
      size == DrawSize(rN, bp)
  IN IF rN < 0
     THEN [canvas |-> cv, ctx |-> saved, outcome |-> "threw",
           blur |-> [blurPx |-> 0, drawn |-> {}]]
     ELSE IF st = "refuseWrite"
     THEN [canvas |-> cv, ctx |-> filtered, outcome |-> "threw",
           blur |-> [blurPx |-> bp, drawn |-> {}]]
     ELSE [canvas |-> DrawImage(cv, filtered.clip, sx, sy, size, bp),
           ctx |-> Restore(filtered), outcome |-> "done",
           blur |-> [blurPx |-> bp,
                     drawn |-> DrawnPixels(cv, filtered.clip, sx, sy, size)]]

\* ------------------------------------------------------------- the inputs
\* Images a canvas can hold after loading: a patterned one (channels at 0
\* and 255, varying alpha) and one of a single color.
Pattern(x, y, c) ==
  CASE c = 0 -> IF (x + y) % 2 = 0 THEN ByteMax ELSE 0
    [] c = 1 -> (x * 37 + y * 11) % (ByteMax + 1)
    [] c = 2 -> (x + 2 * y) % (ByteMax + 1)
    [] OTHER -> ByteMax - 40 * ((x + y) % 3)

Flat(x, y, c) == IF c = 3 THEN ByteMax ELSE 128

ImageOf(w, h, kind) ==
  [width |-> w, height |-> h,
   data |-> [i \in 1..(w * h * 4) |->
      LET p == (i - 1) \div 4
      IN IF kind = "pattern" THEN Pattern(p % w, p \div w, (i - 1) % 4)
         ELSE Flat(p % w, p \div w, (i - 1) % 4)]]

Images == {ImageOf(CanvasW, CanvasH, k) : k \in {"pattern", "flat"}}

\* Brush centers <<x, y>> (numerators over Den): an integer and a
\* fractional position inside the canvas, a negative one, one on the right
\* border, one past the bottom border, and one far beyond the canvas.
Centers ==
  {<<2 * Den, 2 * Den>>,
   <<2 * Den + 1, Den + 1>>,
   <<-(Den + 1), -(Den + 1)>>,
   <<CanvasW * Den, Den>>,
   <<Den - 1, CanvasH * Den + 1>>,
   <<(CanvasW + 4) * Den, Den>>}
\* Radii (numerators over Den): negative, zero, integer, fractional, and one
\* covering a 4x4 canvas from its middle.
Radii == {-1, 0, Den, Den + 1, 3 * Den}
\* Intensities (numerators over Den): negative, zero, fractional, integer.
Intensities == {-Den, 0, 2 * Den + 1, 3 * Den, 4 * Den}
\* Answers of the backing store: it serves reads and writes, refuses reads
\* (a tainted canvas), or refuses writes.
Stores == {"ok", "refuseRead", "refuseWrite"}
\* Values of Math.random() (numerators over RandDen): 0, the middle and the
\* value just below 1; a stream is repeated cyclically within a dab.
Streams == {<<0>>, <<RandDen - 1>>, <<RandDen - 1, 0, RandDen \div 2, 0>>}

\* ------------------------------------------------------------------ state
VARIABLES
  canvas,         \* the canvas backing store: [width, height, data]
  tool,           \* the selected tool
  brushSettings,  \* [radius, intensity], numerators over Den
  store,          \* how the backing store answers
  random,         \* the stream of values Math.random() returns in a dab
  before,         \* the canvas as it was when the last dab began
  center,         \* the last dab's brush center
  ret,            \* the last dab's outcome and the trace of what it did
  cellLog,        \* per pixelate dab so far, the cells it averaged and repainted
  nDabs,          \* number of dabs applied
  ctx,            \* the drawing state of the canvas' 2D context
  lastBlur,       \* the blur length and the pixels drawn by the last applyBlur
  surface,        \* the component that receives the pointer events
  imageSrc,       \* App.imageSrc: "none" or the image selected
  imgObj,         \* the image has loaded and the canvas is mounted and drawn
  isDrawing,      \* the surface's isDrawing state
  history,        \* App.history: a sequence of full canvas snapshots
  historyIndex,   \* App.historyIndex
  outerTimers,    \* pending setTimeout(initHistory, 100)
  innerTimers,    \* pending 50 ms timeouts of initHistory, in firing order
  resets,         \* images of handleReset that have not loaded yet, in order
  pointer,        \* the stroke as the pointer events define it
  reported,       \* onStrokeStart reports not yet matched by an onStrokeEnd
  nEvents         \* number of events handled

drawVars == <<ctx, lastBlur>>

appVars == <<surface, imageSrc, imgObj, isDrawing, history, historyIndex,
             outerTimers, innerTimers, resets, pointer, reported, nEvents>>

vars == <<canvas, tool, brushSettings, store, random, before, center, ret,
          cellLog, nDabs, drawVars, appVars>>

\* The editor around the effects, not taking part: no image selected.
NoImage == [width |-> 0, height |-> 0, data |-> <<>>]
NoEditor ==
  /\ surface = "EditorCanvas"
  /\ imageSrc = "none"
  /\ imgObj = FALSE
  /\ isDrawing = FALSE
  /\ history = <<>>
  /\ historyIndex = -1
  /\ outerTimers = 0
  /\ innerTimers = <<>>
  /\ resets = <<>>
  /\ pointer = "idle"
  /\ reported = 0
  /\ nEvents = 0

NoBlur == [blurPx |-> 0, drawn |-> {}]

Init ==
  /\ canvas \in Images
  /\ tool \in {"PIXELATE", "NOISE"}
  /\ brushSettings \in [radius : Radii, intensity : Intensities]
  /\ store \in Stores
  /\ random \in IF tool = "NOISE" THEN Streams ELSE {<<0>>}
  /\ before = canvas
  /\ center = <<0, 0>>
  /\ ret = [outcome |-> "none", trace |-> NoTrace]
  /\ cellLog = <<>>
  /\ nDabs = 0
  /\ ctx = FreshContext
  /\ lastBlur = NoBlur
  /\ NoEditor

\* paint() with the pixelate tool: one call of applyPixelate.
PixelateDab ==
  /\ nDabs < MaxDabs
  /\ tool = "PIXELATE"
  /\ \E at \in Centers :
       LET res == ApplyPixelate(canvas, at[1], at[2], brushSettings.radius,
                                brushSettings.intensity, store)
       IN /\ canvas' = res.canvas
          /\ before' = canvas
          /\ center' = at
          /\ ret' = [outcome |-> res.outcome, trace |-> res.trace]
          /\ cellLog' = Append(cellLog, res.trace.cells)
          /\ nDabs' = nDabs + 1
  /\ UNCHANGED <<tool, brushSettings, store, random, drawVars, appVars>>

\* paint() with the noise tool: one call of applyNoise.
NoiseDab ==
  /\ nDabs < MaxDabs
  /\ tool = "NOISE"
  /\ \E at \in Centers :
       LET res == ApplyNoise(canvas, at[1], at[2], brushSettings.radius,
                             brushSettings.intensity, store, random)
       IN /\ canvas' = res.canvas
          /\ before' = canvas
          /\ center' = at
          /\ ret' = [outcome |-> res.outcome, trace |-> res.trace]
          /\ cellLog' = cellLog
          /\ nDabs' = nDabs + 1
  /\ UNCHANGED <<tool, brushSettings, store, random, drawVars, appVars>>

Next == PixelateDab \/ NoiseDab

Spec == Init /\ [][Next]_vars

\* paint() with the blur tool: one call of applyBlur.
BlurDab ==
  /\ nDabs < MaxDabs
  /\ tool = "BLUR"
  /\ \E at \in Centers :
       LET res == ApplyBlur(canvas, ctx, at[1], at[2], brushSettings.radius,
                            brushSettings.intensity, store)
       IN /\ canvas' = res.canvas
          /\ ctx' = res.ctx
          /\ lastBlur' = res.blur
          /\ before' = canvas
          /\ center' = at
          /\ ret' = [outcome |-> res.outcome, trace |-> NoTrace]
          /\ cellLog' = cellLog
          /\ nDabs' = nDabs + 1
  /\ UNCHANGED <<tool, brushSettings, store, random, appVars>>

\* The effects whose intensity is clamped: dabs of the pixelate and of the
\* blur tool.
BlurInit ==
  /\ canvas \in Images
  /\ tool \in {"PIXELATE", "BLUR"}
  /\ brushSettings \in [radius : Radii, intensity : Intensities]
  /\ store \in Stores
  /\ random = <<0>>
  /\ before = canvas
  /\ center = <<0, 0>>
  /\ ret = [outcome |-> "none", trace |-> NoTrace]
  /\ cellLog = <<>>
  /\ nDabs = 0
  /\ ctx = FreshContext
  /\ lastBlur = NoBlur
  /\ NoEditor

BlurNext == PixelateDab \/ BlurDab

BlurSpec == BlurInit /\ [][BlurNext]_vars

\* ------------------------------------------------------------- the editor
\* The images a user selects, the brush of the editor, the points of the
\* canvas a pointer event maps to, and the values Math.random() returns.
AppImageKinds == {"pattern", "flat"}
AppImage(kind) == ImageOf(AppSide, AppSide, kind)
AppBrush == [radius |-> Den, intensity |-> 2 * Den + 1]
AppCenters == {<<Den, Den>>, <<0, 0>>}
AppStream == <<RandDen - 1, 0, RandDen \div 2, 0>>
Tools == {"PIXELATE", "BLUR", "NOISE"}
\* Numbers of snapshots the history holds when a behaviour begins.
Prefills == {0, HistoryLimit}

\* A canvas element whose width was set and on which nothing was drawn.
Blank(w, h) == [width |-> w, height |-> h, data |-> [i \in 1..(w * h * 4) |-> 0]]

\* canvasRef.current is not null: the editor is shown and its image loaded.
CanvasMounted == imageSrc # "none" /\ imgObj

\* paint(e): one dab of the selected tool at the event's point.
Paint(cv, cx, at) ==
  CASE tool = "PIXELATE" ->
         [canvas |-> ApplyPixelate(cv, at[1], at[2], brushSettings.radius,
                                   brushSettings.intensity, store).canvas,
          ctx |-> cx]
    [] tool = "NOISE" ->
         [canvas |-> ApplyNoise(cv, at[1], at[2], brushSettings.radius,
                                brushSettings.intensity, store, random).canvas,
          ctx |-> cx]
    [] OTHER ->
         LET res == ApplyBlur(cv, cx, at[1], at[2], brushSettings.radius,
                              brushSettings.intensity, store)
         IN [canvas |-> res.canvas, ctx |-> res.ctx]

\* handleStrokeStart: takes the base snapshot when the history is empty.
HandleStrokeStart(h, hi, cv) ==
  IF hi = -1
  THEN [history |-> <<cv>>, historyIndex |-> 0]
  ELSE [history |-> h, historyIndex |-> hi]

\* The cap of handleStrokeEnd: the oldest snapshot leaves a history longer
\* than HistoryLimit.
NoShift(h) == h
Shift(h) == IF Len(h) > HistoryLimit THEN Tail(h) ELSE h

\* history.slice(0, historyIndex + 1)
KeepAll(h, hi) == h
Slice(h, hi) == SubSeq(h, 1, hi + 1)

\* handleStrokeEnd: the canvas becomes the last and current snapshot.
HandleStrokeEndIndexBeforeShift(h, hi, cv) ==
  [history |-> Shift(Append(Slice(h, hi), cv)),
   historyIndex |-> Len(Append(Slice(h, hi), cv)) - 1]
HandleStrokeEnd(h, hi, cv) ==
  LET newHistory == Shift(Append(Slice(h, hi), cv))
  IN [history |-> newHistory, historyIndex |-> Len(newHistory) - 1]

\* restoreHistory(index)
RestoreHistory(cv, h, index) ==
  IF ~CanvasMounted \/ index < 0 \/ index >= Len(h) THEN cv
  ELSE PutImageData(cv, h[index + 1], 0, 0)

Tick == nEvents < MaxEvents /\ nEvents' = nEvents + 1

\* The stroke as the pointer events define it: a pointer that goes down
\* alone begins a stroke; one that joins another pointer does not.
PointerAfterDown(touches) ==
  IF touches = 1 \/ pointer = "active" THEN "active" ELSE "gesture"

\* handleStart of EditorCanvas (mousedown, touchstart).
EditorHandleStart(touches, at) ==
  IF touches > 1
  THEN UNCHANGED <<canvas, ctx, isDrawing, history, historyIndex, reported,
                   nDabs>>
  ELSE LET base == HandleStrokeStart(history, historyIndex, canvas)
           res == Paint(canvas, ctx, at)
       IN /\ history' = base.history
          /\ historyIndex' = base.historyIndex
          /\ reported' = reported + 1
          /\ isDrawing' = TRUE
          /\ canvas' = res.canvas
          /\ ctx' = res.ctx
          /\ nDabs' = nDabs + 1

\* handleStart of ImageEditor.
ImageEditorHandleStart(at) ==
  LET res == Paint(canvas, ctx, at)
  IN /\ isDrawing' = TRUE
     /\ canvas' = res.canvas
     /\ ctx' = res.ctx
     /\ nDabs' = nDabs + 1
     /\ UNCHANGED <<history, historyIndex, reported>>

HandleStart ==
  /\ Tick
  /\ CanvasMounted
  /\ \E touches \in {1, 2}, at \in AppCenters :
       /\ pointer' = PointerAfterDown(touches)
       /\ IF surface = "EditorCanvas"
          THEN EditorHandleStart(touches, at)
          ELSE ImageEditorHandleStart(at)
  /\ UNCHANGED <<tool, brushSettings, store, random, before, center, ret,
                 cellLog, lastBlur, surface, imageSrc, imgObj, outerTimers,
                 innerTimers, resets>>

\* handleMove (mousemove, touchmove): a dab while isDrawing.
HandleMove ==
  /\ Tick
  /\ CanvasMounted
  /\ \E at \in AppCenters :
       IF isDrawing
       THEN LET res == Paint(canvas, ctx, at)
            IN /\ canvas' = res.canvas
               /\ ctx' = res.ctx
                    /\ nDabs' = nDabs + 1
       ELSE UNCHANGED <<canvas, ctx, nDabs>>
  /\ UNCHANGED <<tool, brushSettings, store, random, before, center, ret,
                 cellLog, lastBlur, surface, imageSrc, imgObj, isDrawing,
                 history, historyIndex, outerTimers, innerTimers, resets,
                 pointer, reported>>

\* handleEnd of EditorCanvas: ends the stroke and reports it when isDrawing.
EditorHandleEnd ==
  IF isDrawing
  THEN LET snap == HandleStrokeEnd(history, historyIndex, canvas)
       IN /\ isDrawing' = FALSE
          /\ history' = snap.history
          /\ historyIndex' = snap.historyIndex
          /\ reported' = reported - 1
  ELSE UNCHANGED <<isDrawing, history, historyIndex, reported>>

\* What every event that ends a stroke leaves alone.
EndFrame ==
  UNCHANGED <<canvas, tool, brushSettings, store, random, before, center, ret,
              cellLog, nDabs, drawVars, surface, imageSrc, imgObj,
              outerTimers, innerTimers, resets>>

\* mouseup, touchend.
HandleEnd ==
  /\ Tick
  /\ CanvasMounted
  /\ pointer' = "idle"
  /\ IF surface = "EditorCanvas"
     THEN EditorHandleEnd
     ELSE isDrawing' = FALSE /\ UNCHANGED <<history, historyIndex, reported>>
  /\ EndFrame

\* mouseleave.
MouseLeave ==
  /\ Tick
  /\ CanvasMounted
  /\ pointer' = "idle"
  /\ IF surface = "EditorCanvas"
     THEN EditorHandleEnd
     ELSE isDrawing' = FALSE /\ UNCHANGED <<history, historyIndex, reported>>
  /\ EndFrame

\* touchcancel: bound to handleEnd by EditorCanvas, not bound by ImageEditor.
TouchCancel ==
  /\ Tick
  /\ CanvasMounted
  /\ pointer' = "idle"
  /\ IF surface = "EditorCanvas"
     THEN EditorHandleEnd
     ELSE UNCHANGED <<isDrawing, history, historyIndex, reported>>
  /\ EndFrame

\* What a button of the App's header or toolbar leaves alone.
ButtonFrame ==
  UNCHANGED <<brushSettings, store, random, before, center, ret, cellLog,
              nDabs, lastBlur, surface, isDrawing, pointer, reported>>

\* undo()
Undo ==
  /\ Tick
  /\ surface = "EditorCanvas"
  /\ imageSrc # "none"
  /\ IF historyIndex > 0
     THEN /\ historyIndex' = historyIndex - 1
          /\ canvas' = RestoreHistory(canvas, history, historyIndex - 1)
     ELSE UNCHANGED <<historyIndex, canvas>>
  /\ ButtonFrame
  /\ UNCHANGED <<tool, ctx, imageSrc, imgObj, history, outerTimers,
                 innerTimers, resets>>

\* redo()
Redo ==
  /\ Tick
  /\ surface = "EditorCanvas"
  /\ imageSrc # "none"
  /\ IF historyIndex < Len(history) - 1
     THEN /\ historyIndex' = historyIndex + 1
          /\ canvas' = RestoreHistory(canvas, history, historyIndex + 1)
     ELSE UNCHANGED <<historyIndex, canvas>>
  /\ ButtonFrame
  /\ UNCHANGED <<tool, ctx, imageSrc, imgObj, history, outerTimers,
                 innerTimers, resets>>

\* setTool: the App renders again, and a render with historyIndex = -1 and
\* a mounted canvas schedules initHistory.
SetTool ==
  /\ Tick
  /\ surface = "EditorCanvas"
  /\ imageSrc # "none"
  /\ \E t \in Tools \ {tool} : tool' = t
  /\ outerTimers' = IF historyIndex = -1 /\ CanvasMounted
                    THEN outerTimers + 1 ELSE outerTimers
  /\ ButtonFrame
  /\ UNCHANGED <<canvas, ctx, imageSrc, imgObj, history, historyIndex,
                 innerTimers, resets>>

\* initHistory, 100 ms after the render: starts the 50 ms timeout on the
\* context of the canvas mounted now.
InitHistory ==
  /\ Tick
  /\ outerTimers > 0
  /\ outerTimers' = outerTimers - 1
  /\ innerTimers' = IF CanvasMounted
                    THEN Append(innerTimers, [live |-> TRUE, img |-> NoImage])
                    ELSE innerTimers
  /\ ButtonFrame
  /\ UNCHANGED <<canvas, tool, ctx, imageSrc, imgObj, history, historyIndex,
                 resets>>

\* The 50 ms timeout of initHistory: the history becomes the one snapshot
\* of the canvas whose context initHistory took.
InitHistoryTimeout ==
  /\ Tick
  /\ innerTimers # <<>>
  /\ innerTimers' = Tail(innerTimers)
  /\ history' = <<IF Head(innerTimers).live THEN canvas
                  ELSE Head(innerTimers).img>>
  /\ historyIndex' = 0
  /\ ButtonFrame
  /\ UNCHANGED <<canvas, tool, ctx, imageSrc, imgObj, outerTimers, resets>>

\* handleReset: starts loading the image again.
HandleReset ==
  /\ Tick
  /\ surface = "EditorCanvas"
  /\ CanvasMounted
  /\ resets' = Append(resets, [src |-> imageSrc, live |-> TRUE])
  /\ ButtonFrame
  /\ UNCHANGED <<canvas, tool, ctx, imageSrc, imgObj, history, historyIndex,
                 outerTimers, innerTimers>>

\* img.onload of handleReset: sizes the mounted canvas (which clears it),
\* draws the image with the context taken at the click and makes what that
\* context holds the only snapshot.  Without a mounted canvas it throws.
ResetOnload ==
  /\ Tick
  /\ resets # <<>>
  /\ resets' = Tail(resets)
  /\ IF ~CanvasMounted
     THEN UNCHANGED <<canvas, ctx, history, historyIndex>>
     ELSE /\ canvas' = IF Head(resets).live THEN AppImage(Head(resets).src)
                       ELSE Blank(AppSide, AppSide)
          /\ ctx' = FreshContext
          /\ history' = <<AppImage(Head(resets).src)>>
          /\ historyIndex' = 0
  /\ ButtonFrame
  /\ UNCHANGED <<tool, imageSrc, imgObj, outerTimers, innerTimers>>

\* The "New" button, setImageSrc(null): the editor and its canvas unmount;
\* pending timeouts and resets keep the context of the canvas that was.
NewImage ==
  /\ Tick
  /\ surface = "EditorCanvas"
  /\ imageSrc # "none"
  /\ imageSrc' = "none"
  /\ imgObj' = FALSE
  /\ isDrawing' = FALSE
  /\ pointer' = "idle"
  /\ innerTimers' = [i \in DOMAIN innerTimers |->
                       IF innerTimers[i].live
                       THEN [live |-> FALSE, img |-> canvas]
                       ELSE innerTimers[i]]
  /\ resets' = [i \in DOMAIN resets |-> [resets[i] EXCEPT !.live = FALSE]]
  /\ UNCHANGED <<canvas, tool, brushSettings, store, random, before, center,
                 ret, cellLog, nDabs, drawVars, surface, history,
                 historyIndex, outerTimers, reported>>

\* handleImageUpload and the effect on imageSrc: the history is emptied.
HandleImageUpload ==
  /\ Tick
  /\ surface = "EditorCanvas"
  /\ imageSrc = "none"
  /\ \E kind \in AppImageKinds : imageSrc' = kind
  /\ history' = <<>>
  /\ historyIndex' = -1
  /\ UNCHANGED <<canvas, tool, brushSettings, store, random, before, center,
                 ret, cellLog, nDabs, drawVars, surface, imgObj, isDrawing,
                 outerTimers, innerTimers, resets, pointer, reported>>

\* img.onload of EditorCanvas and its canvas setup: the canvas is mounted,
\* sized and drawn.
ImageOnload ==
  /\ Tick
  /\ imageSrc # "none"
  /\ ~imgObj
  /\ imgObj' = TRUE
  /\ canvas' = AppImage(imageSrc)
  /\ ctx' = FreshContext
  /\ UNCHANGED <<tool, brushSettings, store, random, before, center, ret,
                 cellLog, nDabs, lastBlur, surface, imageSrc, isDrawing,
                 history, historyIndex, outerTimers, innerTimers, resets,
                 pointer, reported>>

\* The editor when a behaviour begins: no image selected yet, or an image
\* loaded and a history of snapshots of it (strokes that left it as it was);
\* ImageEditor stands alone, with its image loaded.
AppInit ==
  /\ surface \in {"EditorCanvas", "ImageEditor"}
  /\ imageSrc \in IF surface = "EditorCanvas" THEN {"none", "pattern"}
                  ELSE {"pattern"}
  /\ imgObj = (imageSrc # "none")
  /\ canvas = IF imgObj THEN AppImage(imageSrc) ELSE NoImage
  /\ \E n \in Prefills :
       /\ (surface = "ImageEditor" \/ imageSrc = "none") => n = 0
       /\ history = [i \in 1..n |-> canvas]
       /\ historyIndex = n - 1
  /\ tool = "PIXELATE"
  /\ brushSettings = AppBrush
  /\ store = "ok"
  /\ random = AppStream
  /\ before = canvas
  /\ center = <<0, 0>>
  /\ ret = [outcome |-> "none", trace |-> NoTrace]
  /\ cellLog = <<>>
  /\ nDabs = 0
  /\ ctx = FreshContext
  /\ lastBlur = NoBlur
  /\ isDrawing = FALSE
  /\ outerTimers = 0
  /\ innerTimers = <<>>
  /\ resets = <<>>
  /\ pointer = "idle"
  /\ reported = 0
  /\ nEvents = 0

AppNext ==
  \/ HandleStart \/ HandleMove \/ HandleEnd \/ MouseLeave \/ TouchCancel
  \/ Undo \/ Redo \/ SetTool \/ InitHistory \/ InitHistoryTimeout
  \/ HandleReset \/ ResetOnload \/ NewImage \/ HandleImageUpload
  \/ ImageOnload

AppSpec == AppInit /\ [][AppNext]_vars

\* ---------------------------------------------------------------- claims
\* The canvas pixels and the bytes of a pixel.
CanvasPixels(cv) == (0..(cv.width - 1)) \X (0..(cv.height - 1))
Channel(cv, x, y, c) == cv.data[(y * cv.width + x) * 4 + c + 1]
Pixel(cv, x, y) == [c \in 0..3 |-> Channel(cv, x, y, c)]

\* Squared distance (over Den * Den) of pixel (x, y) from the last dab's
\* center, and the two sides of "distance <= radius".
Dist2(x, y) ==
  (x * Den - center[1]) * (x * Den - center[1])
    + (y * Den - center[2]) * (y * Den - center[2])
WithinRadius(x, y) ==
  /\ brushSettings.radius >= 0
  /\ Dist2(x, y) <= brushSettings.radius * brushSettings.radius
BeyondRadius(x, y) == ~WithinRadius(x, y)

Dabbed == ret.outcome # "none"
\* A brush as callers are to supply it: radius > 0 and intensity > 0.
ValidBrush == brushSettings.radius > 0 /\ brushSettings.intensity > 0
Abs(n) == IF n >= 0 THEN n ELSE -n

\* C1: every grid cell a pixelate dab averages and repaints is
\* [k*blockSize, (k+1)*blockSize) per axis for an integer k, cut to the
\* canvas, and is not empty; so the cells two dabs compute for the same
\* blockSize and the same grid position have identical extents.
CanonicalCell(cell) ==
  /\ cell.blockSize >= MinBlockSize
  /\ cell.gx % cell.blockSize = 0
  /\ cell.gy % cell.blockSize = 0
  /\ cell.minX = Max(0, cell.gx)
  /\ cell.maxX = Min(canvas.width, cell.gx + cell.blockSize)
  /\ cell.minY = Max(0, cell.gy)
  /\ cell.maxY = Min(canvas.height, cell.gy + cell.blockSize)
  /\ cell.minX < cell.maxX
  /\ cell.minY < cell.maxY

C1_GridCells ==
  /\ \A i \in DOMAIN cellLog : \A cell \in cellLog[i] : CanonicalCell(cell)
  /\ \A i \in DOMAIN cellLog, j \in DOMAIN cellLog :
       \A a \in cellLog[i], b \in cellLog[j] :
         (a.blockSize = b.blockSize /\ a.gx = b.gx /\ a.gy = b.gy) => a = b

\* Two dabs at different centers touched a common cell, and one of the cells
\* of the later dab is cut by the canvas border.
C1_Witness ==
  /\ Len(cellLog) = 2
  /\ cellLog[1] # cellLog[2]
  /\ cellLog[1] \cap cellLog[2] # {}
  /\ \E cell \in cellLog[2] : cell.maxX - cell.minX < cell.blockSize

\* C2: after a pixelate or noise dab every pixel whose distance from the
\* brush center is strictly greater than the radius has the R, G, B, A it
\* had before the dab.
C2_CircularContainment ==
  Dabbed =>
    \A p \in CanvasPixels(canvas) :
      BeyondRadius(p[1], p[2]) => Pixel(canvas, p[1], p[2]) = Pixel(before, p[1], p[2])

\* A dab changed the canvas and the rectangle it read and wrote held a pixel
\* beyond the radius.
C2_Witness ==
  /\ ret.outcome = "done"
  /\ canvas # before
  /\ \E p \in CanvasPixels(canvas) :
       /\ BeyondRadius(p[1], p[2])
       /\ p[1] >= ret.trace.rect.x /\ p[1] < ret.trace.rect.x + ret.trace.rect.w
       /\ p[2] >= ret.trace.rect.y /\ p[2] < ret.trace.rect.y + ret.trace.rect.h

\* C3: whatever the brush center and radius, the rectangle a dab reads and
\* writes lies inside the canvas, every buffer index the dab touches lies
\* inside the buffer that was read, no exception leaves the call while the
\* store serves its requests, and a brush with no canvas pixel within its
\* radius leaves the canvas unchanged.
C3_ClippedAccess ==
  /\ ret.trace.ops # <<>> =>
       /\ ret.trace.rect.x >= 0
       /\ ret.trace.rect.y >= 0
       /\ ret.trace.rect.w >= 0
       /\ ret.trace.rect.h >= 0
       /\ ret.trace.rect.x + ret.trace.rect.w <= canvas.width
       /\ ret.trace.rect.y + ret.trace.rect.h <= canvas.height
  /\ (ret.trace.ops # <<>> /\ ret.trace.ops[1].ok) =>
       /\ ret.trace.rect.w >= 1
       /\ ret.trace.rect.h >= 1
       /\ ret.trace.bufLen = ret.trace.rect.w * ret.trace.rect.h * 4
       /\ \A idx \in ret.trace.touched : idx >= 0 /\ idx < ret.trace.bufLen
  /\ store = "ok" => ret.outcome # "threw"
  /\ (Dabbed /\ \A p \in CanvasPixels(canvas) : BeyondRadius(p[1], p[2])) =>
       canvas = before

\* A brush centered at negative coordinates changed the canvas.
C3_Witness ==
  /\ ret.outcome = "done"
  /\ center[1] < 0 /\ center[2] < 0
  /\ canvas # before
  /\ ret.trace.touched # {}
\* Sum of f over the finite set S.
RECURSIVE SumOver(_, _)
SumOver(f, S) ==
  IF S = {} THEN 0
  ELSE LET e == CHOOSE m \in S : TRUE
       IN f[e] + SumOver(f, S \ {e})

\* The canvas pixels of the grid cell (anchored at the origin, of the side
\* the dab's intensity gives) that holds pixel (x, y), and the floor of the
\* mean of channel c over them.
CellOf(cv, x, y) ==
  LET side == BlockSize(brushSettings.intensity)
  IN {q \in CanvasPixels(cv) :
        q[1] \div side = x \div side /\ q[2] \div side = y \div side}
CellMean(cv, x, y, c) ==
  LET cell == CellOf(cv, x, y)
  IN SumOver([q \in cell |-> Channel(cv, q[1], q[2], c)], cell)
       \div Cardinality(cell)

\* C4: a pixelate dab (valid brush, store serving) overwrites every
\* canvas pixel whose distance from the brush center is <= radius with the
\* floor of the means of R, G, B over all pixels of (its grid cell cut to the
\* canvas) as they were before the dab.
C4_EveryPixelWithinRadiusAveraged ==
  (tool = "PIXELATE" /\ Dabbed /\ store = "ok" /\ ValidBrush) =>
    \A p \in CanvasPixels(canvas) :
      WithinRadius(p[1], p[2]) =>
        \A c \in 0..2 :
          Channel(canvas, p[1], p[2], c) = CellMean(before, p[1], p[2], c)

\* C5: a pixelate dab on a canvas whose pixels all have the same color
\* leaves the whole canvas unchanged.
Uniform(cv) ==
  \A p \in CanvasPixels(cv), q \in CanvasPixels(cv), c \in 0..2 :
    Channel(cv, p[1], p[2], c) = Channel(cv, q[1], q[2], c)

C5_UniformStable ==
  (tool = "PIXELATE" /\ Dabbed /\ Uniform(before)) => canvas = before

\* A pixelate dab stored the average to pixels of a single-color canvas.
C5_Witness ==
  /\ tool = "PIXELATE"
  /\ ret.outcome = "done"
  /\ Uniform(before)
  /\ \E cell \in ret.trace.cells :
       \E x \in cell.minX..(cell.maxX - 1), y \in cell.minY..(cell.maxY - 1) :
         WithinRadius(x, y)

\* C6: no dab changes the alpha byte of any pixel, nor the canvas width,
\* height or data length (width * height * 4).
C6_AlphaAndSizeKept ==
  [][/\ canvas'.width = canvas.width
     /\ canvas'.height = canvas.height
     /\ Len(canvas'.data) = Len(canvas.data)
     /\ Len(canvas'.data) = canvas'.width * canvas'.height * 4
     /\ \A p \in CanvasPixels(canvas) :
          Channel(canvas', p[1], p[2], 3) = Channel(canvas, p[1], p[2], 3)]_vars

\* The second dab of a behaviour changed the color of a pixel whose alpha is
\* not 255.
C6_Witness ==
  /\ nDabs = 2
  /\ ret.outcome = "done"
  /\ \E p \in CanvasPixels(canvas) :
       /\ Channel(before, p[1], p[2], 3) # ByteMax
       /\ \E c \in 0..2 : Channel(canvas, p[1], p[2], c) # Channel(before, p[1], p[2], c)

ClippedBox(limit, cN) ==
  [min |-> Max(0, Floor(cN - brushSettings.radius, Den)),
   max |-> Min(limit, Ceil(cN + brushSettings.radius, Den))]

C8_EveryPixelWithinRadiusDrawn ==
  (tool = "NOISE" /\ Dabbed /\ store = "ok" /\ ValidBrush) =>
    /\ ret.trace.ops # <<>> =>
         /\ ret.trace.rect.x = ClippedBox(canvas.width, center[1]).min
         /\ ret.trace.rect.x + ret.trace.rect.w
              = ClippedBox(canvas.width, center[1]).max
         /\ ret.trace.rect.y = ClippedBox(canvas.height, center[2]).min
         /\ ret.trace.rect.y + ret.trace.rect.h
              = ClippedBox(canvas.height, center[2]).max
    /\ \A p \in CanvasPixels(canvas) :
         WithinRadius(p[1], p[2]) =>
           \A c \in 0..2 :
             \E d \in ret.trace.draws : d.x = p[1] /\ d.y = p[2] /\ d.c = c

\* C9: every offset a noise dab adds to a channel has magnitude at most
\* variance / 2 with variance = intensity * 1.5, the stored byte differs
\* from the old one by at most that plus the rounding of the byte store, and
\* with intensity 0 the canvas is unchanged.
C9_NoiseOffsets ==
  tool = "NOISE" =>
    /\ \A d \in ret.trace.draws :
         /\ 4 * Den * Abs(d.off) <= OffDen * 3 * Abs(brushSettings.intensity)
         /\ 4 * Den * OffDen * Abs(d.new - d.old)
              <= OffDen * 3 * Abs(brushSettings.intensity) + 2 * Den * OffDen
    /\ brushSettings.intensity = 0 => canvas = before

\* A noise dab of positive intensity drew the extreme offset -variance / 2
\* and changed the canvas.
C9_Witness ==
  /\ tool = "NOISE"
  /\ ret.outcome = "done"
  /\ brushSettings.intensity > 0
  /\ canvas # before
  /\ \E d \in ret.trace.draws :
       4 * Den * d.off = -(OffDen * 3 * brushSettings.intensity)

\* C10: when the backing store refuses the read or the write of a dab (valid
\* brush), the
\* dab is a silent no-op: the canvas is as before the dab, no exception
\* leaves the call, every write follows a served read, and nothing follows a
\* refused read.
C10_RefusalIsSilentNoOp ==
  /\ \A i \in DOMAIN ret.trace.ops :
       ret.trace.ops[i].op = "write" =>
         i > 1 /\ ret.trace.ops[i - 1] = ReadOk
  /\ (Dabbed /\ store # "ok" /\ ValidBrush) =>
       /\ canvas = before
       /\ ret.outcome # "threw"

\* C11: a dab with degenerate geometry (radius <= 0, or a brush whose
\* bounding box lies outside the canvas) on a store that serves its requests
\* leaves every pixel of the canvas unchanged and raises no exception.
BrushOutside ==
  \/ BrushMax(center[1], brushSettings.radius) <= 0
  \/ BrushMin(center[1], brushSettings.radius) >= canvas.width
  \/ BrushMax(center[2], brushSettings.radius) <= 0
  \/ BrushMin(center[2], brushSettings.radius) >= canvas.height

Degenerate == brushSettings.radius <= 0 \/ BrushOutside

C11_DegenerateIsNoOp ==
  (Dabbed /\ store = "ok" /\ brushSettings.intensity > 0 /\ Degenerate) =>
    /\ canvas = before
    /\ ret.outcome # "threw"

\* C12: whatever the intensity (zero, negative, fractional), every cell of a
\* pixelate dab has the side max(2, floor(intensity)) >= 2 and the dab
\* repaints finitely many cells, a blur dab uses the blur length
\* max(1, intensity / 4) >= 1, and no exception leaves either effect for a
\* radius >= 0 on a store that serves its requests.
C12_IntensityClamped ==
  /\ tool = "PIXELATE" =>
       /\ \A cell \in ret.trace.cells :
            /\ cell.blockSize >= MinBlockSize
            /\ cell.blockSize >= Floor(brushSettings.intensity, Den)
            /\ cell.blockSize \in {MinBlockSize, Floor(brushSettings.intensity, Den)}
       /\ Cardinality(ret.trace.cells) <= canvas.width * canvas.height
  /\ (tool = "BLUR" /\ Dabbed /\ brushSettings.radius >= 0) =>
       /\ lastBlur.blurPx >= BlurDen
       /\ lastBlur.blurPx >= brushSettings.intensity
       /\ lastBlur.blurPx \in {BlurDen, brushSettings.intensity}
  /\ (Dabbed /\ store = "ok" /\ brushSettings.radius >= 0) =>
       ret.outcome = "done" \/ ret.outcome = "empty"

\* A blur dab of an intensity <= 0 changed the canvas.
C12_Witness ==
  /\ tool = "BLUR"
  /\ ret.outcome = "done"
  /\ brushSettings.intensity <= 0
  /\ lastBlur.drawn # {}
  /\ canvas # before

\* C17: after every applyBlur call, whether its draw succeeded or failed,
\* the context has the clip region, the filter and the stack of saved states
\* it had before the call.
C17_BlurLeavesContextAsFound ==
  [][(tool = "BLUR" /\ nDabs' = nDabs + 1 /\ brushSettings.intensity > 0
        /\ brushSettings.radius > 0) => ctx' = ctx]_vars

\* C13: the stroke is a two-state machine driven by the pointer events: the
\* surface is drawing exactly while a stroke is active (a pointer went down
\* alone and no up, leave or cancel followed); the pointer-down that begins
\* a stroke applies exactly one dab, each pointer-move during a stroke
\* applies exactly one dab, and no dab is applied while the stroke is idle.
C13_StrokeLifecycle ==
  [][/\ pointer' = "active" => isDrawing'
     /\ pointer' = "idle" => ~isDrawing'
     /\ (pointer = "idle" /\ pointer' = "active") => nDabs' = nDabs + 1
     /\ (HandleMove /\ pointer = "active") => nDabs' = nDabs + 1
     /\ (pointer = "idle" /\ pointer' = "idle") => nDabs' = nDabs]_vars

\* C14: the reports of EditorCanvas alternate, beginning with a start: at
\* most one onStrokeStart is unmatched by an onStrokeEnd, never fewer than
\* none, and every dab is applied while one is unmatched.
C14_ReportsAlternate ==
  [][surface = "EditorCanvas" =>
       /\ reported' \in {0, 1}
       /\ nDabs' # nDabs => reported' = 1]_vars

\* C15: snapshots are taken per stroke, not per dab.  The end of a stroke of
\* EditorCanvas leaves the canvas as it is and appends exactly one snapshot,
\* the full canvas, after the entries up to the current one (the redo entries
\* are dropped, and the oldest entry when the history is full), and makes it
\* the current entry.  A step that applies a dab leaves the history and the
\* history index alone, but for the base snapshot that the start of a stroke
\* takes of the canvas before its dab while the history is empty.
StrokeEnds ==
  surface = "EditorCanvas" /\ isDrawing /\ ~isDrawing' /\ imageSrc' # "none"

C16_UndoRedoInverse ==
  [][/\ (CanvasMounted /\ (Undo \/ Redo) /\ historyIndex' # historyIndex) =>
          /\ history' = history
          /\ canvas' = history[historyIndex' + 1]
          /\ canvas = history[historyIndex + 1]
     /\ (Undo /\ historyIndex <= 0) =>
          canvas' = canvas /\ historyIndex' = historyIndex
     /\ (Redo /\ historyIndex >= Len(history) - 1) =>
          canvas' = canvas /\ historyIndex' = historyIndex
     /\ canvas' # canvas =>
          \/ nDabs' # nDabs
          \/ Undo \/ Redo \/ ResetOnload \/ ImageOnload]_vars

\* C18: in every state of the editor historyIndex is a position of the
\* history: -1 exactly when the history is empty, and otherwise between 0
\* and Len(history) - 1.
C18_HistoryIndexValid ==
  /\ historyIndex = -1 <=> history = <<>>
  /\ history # <<>> => historyIndex \in 0..(Len(history) - 1)

\* After an image load and a stroke, an undo left the index below the last
\* entry; a full history took a stroke's snapshot; the history was emptied
\* for a new image.
C18_Witness ==
  /\ surface = "EditorCanvas"
  /\ \/ /\ nDabs > 0
        /\ ~isDrawing
        /\ Len(history) = HistoryLimit
        /\ historyIndex = HistoryLimit - 1
        /\ history[HistoryLimit] # history[1]
     \/ /\ nDabs > 0
        /\ historyIndex >= 0
        /\ historyIndex < Len(history) - 1
        /\ canvas = history[historyIndex + 1]

\* C19: the history never holds more than 20 snapshots: the end of a stroke
\* on the last entry of a full history drops the oldest snapshot, keeps the
\* others in order and puts the new snapshot last, as the current entry 19.
C19_HistoryCapped ==
  [][/\ Len(history') <= HistoryLimit
     /\ (StrokeEnds /\ Len(history) = HistoryLimit
           /\ historyIndex = HistoryLimit - 1) =>
          /\ Len(history') = HistoryLimit
          /\ historyIndex' = HistoryLimit - 1
          /\ history'[HistoryLimit] = canvas
          /\ \A i \in 1..(HistoryLimit - 1) : history'[i] = history[i + 1]]_vars

\* A stroke ended on a full history and its snapshot, which differs from
\* the oldest entry, is the last and current one.
C19_Witness ==
  /\ surface = "EditorCanvas"
  /\ nDabs > 0
  /\ ~isDrawing
  /\ reported = 0
  /\ Len(history) = HistoryLimit
  /\ historyIndex = HistoryLimit - 1
  /\ history[HistoryLimit] = canvas
  /\ canvas # history[1]

\* C20: a timeout of initHistory that fires once the history holds a
\* stroke's snapshot leaves the history and the history index as they are.
TimeoutFires == Len(innerTimers') < Len(innerTimers)

C20_InitHistoryKeepsStrokes ==
  [][(TimeoutFires /\ Len(history) >= 2) =>
       history' = history /\ historyIndex' = historyIndex]_vars

====
